---- MODULE Spec2Model ----
(***************************************************************************)
(* Online examination: the row-level-security policies on profiles, the   *)
(* QuestionManager's total_marks synchronisation, and the exam attempt    *)
(* life cycle (Dashboard.startExam, Exam.fetchExamData,                    *)
(* Exam.handleAnswerSelect, Exam.handleSubmitExam, the countdown effect).  *)
(*                                                                         *)
(* Every supabase request is one step: the statement executes on the      *)
(* database and the client code that follows the await runs up to the     *)
(* next request.  Requests of different sessions interleave freely.       *)
(***************************************************************************)
EXTENDS Integers, Sequences, FiniteSets, TLC

VARIABLES
    profiles,       \* public.profiles: identity -> row or NoRow
    lastOp,         \* the last write request sent to a table behind an admin policy
    subjects,       \* public.subjects: subject id -> row or NoRow
    exams,          \* public.exams: exam id -> row or NoRow
    questions,      \* public.questions: question id -> row or NoRow
    qm,             \* the QuestionManager component of the admin panel
    attempts,       \* public.exam_attempts: attempt id -> row or NoRow
    answers,        \* public.student_answers: <<attempt id, question id>> -> row or NoRow
    corrections,    \* is_correct updates sent by handleSubmitExam, not yet executed
    now,            \* the wall clock, in seconds
    client,         \* per browser session: the page shown and its React state
    used            \* how many times the students have begun to start or open an exam

vars == <<profiles, lastOp, subjects, exams, questions, qm, attempts, answers,
          corrections, now, client, used>>

authVars == <<profiles, lastOp>>
adminVars == <<subjects, exams, questions, qm>>
examVars == <<attempts, answers, corrections, now, client, used>>

\* an absent row; NULL is an absent scalar (SQL NULL, JS null/undefined)
NoRow == [absent |-> TRUE]
NULL == "null"

(***************************************************************************)
(* Bounds and input domains                                                *)
(***************************************************************************)
Identities == {"u1", "u2", "u3"}
Roles == {"student", "admin"}
Names == {"n0", "n1"}
SubjectIds == {"s1"}
ExamIds == {"e1"}
QuestionIds == {"q1", "q2"}
AnswerChoices == {"A", "B"}
MarkChoices == {1, 10}
DurationChoices == {0, 1}
FormTotalChoices == {0, 100}
Outcomes == {"ok", "error"}
Sessions == {"t1", "t2"}
MaxAttempts == 3
MaxInFlight == 2
MaxStarts == 3
MaxOpens == 2
TimerHorizon == 61
ResumeHorizon == 125
AttemptIds == 1..MaxAttempts
NoAttempt == 0

\* student_answers has one row per (attempt_id, question_id)
AnswerKeys == AttemptIds \X QuestionIds

RECURSIVE SumOver(_, _)
SumOver(S, f) ==
    IF S = {} THEN 0
    ELSE LET x == CHOOSE y \in S : TRUE IN f[x] + SumOver(S \ {x}, f)

(***************************************************************************)
(* Role resolver and the policies on public.profiles                      *)
(***************************************************************************)
get_current_user_role(uid) ==
    IF profiles[uid] = NoRow THEN NULL ELSE profiles[uid].role

\* a policy that lets every identity with a profile through
AnyProfilePolicy(uid) == profiles[uid] # NoRow

\* a policy that stops students only
NotStudentPolicy(uid) == get_current_user_role(uid) # "student"

AdminPolicy(uid) == get_current_user_role(uid) = "admin"

OwnProfilePolicy(uid, id) == uid = id

\* FOR ALL policies with USING only: the same expression checks the row
\* before and after the write; permissive policies are OR'd.  The new row's
\* role is not part of any expression.
ProfilesWriteAllowed(uid, id, newRole) ==
    AdminPolicy(uid) \/ OwnProfilePolicy(uid, id)

\* supabase.from('profiles').update({ role }).eq('id', id) sent by uid
UpdateProfileRole(uid, id, newRole) ==
    /\ profiles[uid] # NoRow
    /\ profiles[id] # NoRow
    /\ lastOp' = [table |-> "profiles", op |-> "update", caller |-> uid,
                  callerRole |-> get_current_user_role(uid),
                  target |-> id, role |-> newRole]
    /\ profiles' = IF ProfilesWriteAllowed(uid, id, newRole)
                   THEN [profiles EXCEPT ![id].role = newRole]
                   ELSE profiles
    /\ UNCHANGED <<adminVars, examVars>>

\* AdminPanel.toggleUserRole, reachable only behind the admin gate of the page
toggleUserRole(uid, userId) ==
    /\ profiles[uid] # NoRow
    /\ profiles[uid].role = "admin"
    /\ profiles[userId] # NoRow
    /\ LET newRole == IF profiles[userId].role = "admin" THEN "student" ELSE "admin"
       IN UpdateProfileRole(uid, userId, newRole)

\* a write of a non-role field of a profile
UpdateProfileName(uid, id, name) ==
    /\ profiles[uid] # NoRow
    /\ profiles[id] # NoRow
    /\ ProfilesWriteAllowed(uid, id, profiles[id].role)
    /\ profiles' = [profiles EXCEPT ![id].full_name = name]
    /\ lastOp' = [table |-> "profiles", op |-> "update", caller |-> uid,
                  callerRole |-> get_current_user_role(uid),
                  target |-> id, role |-> profiles[id].role]
    /\ UNCHANGED <<adminVars, examVars>>

\* an insert into profiles by uid of a row with the given id: the FOR ALL
\* policies check the new row with their USING expression
InsertProfile(uid, id, role, name) ==
    /\ profiles[id] = NoRow
    /\ AdminPolicy(uid) \/ OwnProfilePolicy(uid, id)
    /\ profiles' = [profiles EXCEPT ![id] = [role |-> role, full_name |-> name]]
    /\ lastOp' = [table |-> "profiles", op |-> "insert", caller |-> uid,
                  callerRole |-> get_current_user_role(uid),
                  target |-> id, role |-> role]
    /\ UNCHANGED <<adminVars, examVars>>

InitProfiles ==
    /\ profiles = [u \in Identities |->
                     IF u = "u1" THEN [role |-> "admin", full_name |-> "n0"]
                     ELSE IF u = "u2" THEN [role |-> "student", full_name |-> "n0"]
                     ELSE NoRow]
    /\ lastOp = NoRow

\* the subjects the admin has created through createSubject
InitSubjects == subjects = [s \in SubjectIds |-> [is_active |-> TRUE]]

InitDb ==
    /\ InitSubjects
    /\ exams = [e \in ExamIds |-> NoRow]
    /\ questions = [q \in QuestionIds |-> NoRow]
    /\ qm = [examId |-> NULL, questions |-> {}, fetching |-> {},
             totalWrites |-> {}, lastOp |-> "none"]


NextAuth ==
    \/ \E uid \in Identities, id \in Identities, r \in Roles, n \in Names :
           InsertProfile(uid, id, r, n)
    \/ \E uid \in Identities, id \in Identities, r \in Roles :
           UpdateProfileRole(uid, id, r)
    \/ \E uid \in Identities, id \in Identities : toggleUserRole(uid, id)
    \/ \E uid \in Identities, id \in Identities, n \in Names :
           UpdateProfileName(uid, id, n)


(***************************************************************************)
(* Admin panel: exams, and the QuestionManager component                  *)
(***************************************************************************)
AdminUser == "u1"

\* AdminPanel.createExam: a subject must be selected; the form's values are
\* inserted as they are
createExam(e, s, duration, total, active) ==
    /\ exams[e] = NoRow
    /\ subjects[s] # NoRow
    /\ AdminPolicy(AdminUser)
    /\ exams' = [exams EXCEPT ![e] = [subject_id |-> s, is_active |-> active,
                                      total_marks |-> total,
                                      duration_minutes |-> duration]]
    /\ UNCHANGED <<authVars, subjects, questions, qm, examVars>>

\* AdminPanel.updateExam(exam.id, { is_active: !exam.is_active })
updateExam(e) ==
    /\ exams[e] # NoRow
    /\ AdminPolicy(AdminUser)
    /\ exams' = [exams EXCEPT ![e].is_active = ~exams[e].is_active]
    /\ UNCHANGED <<authVars, subjects, questions, qm, examVars>>

\* the admin clicks only while fewer than MaxInFlight requests of the
\* QuestionManager are unanswered
QMCanClick == Cardinality(qm.fetching) + Cardinality(qm.totalWrites) < MaxInFlight

QuestionsOf(e) == {q \in QuestionIds : questions[q] # NoRow /\ questions[q].exam_id = e}

MarksOfQuestions(e) == SumOver(QuestionsOf(e), [q \in QuestionsOf(e) |-> questions[q].marks])

\* setSelectedExamForQuestions(exam): the examId prop changes and the
\* [examId] effect calls fetchQuestions()
selectExamForQuestions(e) ==
    /\ QMCanClick
    /\ exams[e] # NoRow
    /\ qm.examId # e
    /\ qm' = [qm EXCEPT !.examId = e, !.fetching = @ \cup {e}, !.lastOp = "none"]
    /\ UNCHANGED <<authVars, subjects, exams, questions, examVars>>

\* updateExamTotalMarks: questions.reduce((sum, q) => sum + q.marks, 0)
TotalMarksOf(rows) == SumOver({r.id : r \in rows}, [i \in {r.id : r \in rows} |->
                                 (CHOOSE r \in rows : r.id = i).marks])

\* the [questions] effect: a total_marks write is sent for the examId prop
TotalMarksEffect(rows, examId) ==
    IF Cardinality(rows) > 0
    THEN {[exam |-> examId, total |-> TotalMarksOf(rows)]}
    ELSE {}

\* fetchQuestions, answered: setQuestions(data) and the [questions] effect
fetchQuestions(e, outcome) ==
    /\ e \in qm.fetching
    /\ IF outcome = "ok"
       THEN LET data == {[id |-> q, marks |-> questions[q].marks] : q \in QuestionsOf(e)}
            IN qm' = [qm EXCEPT !.fetching = @ \ {e},
                                !.questions = data,
                                !.totalWrites = @ \cup TotalMarksEffect(data, qm.examId)]
       ELSE qm' = [qm EXCEPT !.fetching = @ \ {e}, !.lastOp = "failed"]
    /\ UNCHANGED <<authVars, subjects, exams, questions, examVars>>

\* updateExamTotalMarks, answered: an error is logged and dropped
updateExamTotalMarks(w, outcome) ==
    /\ w \in qm.totalWrites
    /\ qm' = [qm EXCEPT !.totalWrites = @ \ {w},
                        !.lastOp = IF outcome = "ok" THEN @ ELSE "failed"]
    /\ exams' = IF outcome = "ok" /\ exams[w.exam] # NoRow /\ AdminPolicy(AdminUser)
                THEN [exams EXCEPT ![w.exam].total_marks = w.total]
                ELSE exams
    /\ UNCHANGED <<authVars, subjects, questions, examVars>>

\* QuestionManager.handleSubmit without editingQuestion: insert, then fetchQuestions()
handleSubmitCreate(q, marks, correct, outcome) ==
    /\ QMCanClick
    /\ qm.examId # NULL
    /\ questions[q] = NoRow
    /\ IF outcome = "ok" /\ AdminPolicy(AdminUser) /\ exams[qm.examId] # NoRow
       THEN /\ questions' = [questions EXCEPT ![q] =
                               [exam_id |-> qm.examId, marks |-> marks,
                                correct_answer |-> correct]]
            /\ qm' = [qm EXCEPT !.fetching = @ \cup {qm.examId}, !.lastOp = "create"]
       ELSE /\ questions' = questions
            /\ qm' = [qm EXCEPT !.lastOp = "failed"]
    /\ UNCHANGED <<authVars, subjects, exams, examVars>>

\* QuestionManager.handleSubmit with editingQuestion: update by id, then fetchQuestions()
handleSubmitUpdate(q, marks, correct, outcome) ==
    /\ QMCanClick
    /\ qm.examId # NULL
    /\ q \in {r.id : r \in qm.questions}
    /\ IF outcome = "ok"
       THEN /\ questions' = IF questions[q] # NoRow /\ AdminPolicy(AdminUser)
                            THEN [questions EXCEPT ![q].marks = marks,
                                                   ![q].correct_answer = correct]
                            ELSE questions
            /\ qm' = [qm EXCEPT !.fetching = @ \cup {qm.examId}, !.lastOp = "update"]
       ELSE /\ questions' = questions
            /\ qm' = [qm EXCEPT !.lastOp = "failed"]
    /\ UNCHANGED <<authVars, subjects, exams, examVars>>

\* QuestionManager.handleDelete: delete by id, then fetchQuestions()
handleDelete(q, outcome) ==
    /\ QMCanClick
    /\ qm.examId # NULL
    /\ q \in {r.id : r \in qm.questions}
    /\ IF outcome = "ok"
       THEN /\ questions' = IF AdminPolicy(AdminUser)
                            THEN [questions EXCEPT ![q] = NoRow]
                            ELSE questions
            /\ qm' = [qm EXCEPT !.fetching = @ \cup {qm.examId}, !.lastOp = "delete"]
       ELSE /\ questions' = questions
            /\ qm' = [qm EXCEPT !.lastOp = "failed"]
    /\ UNCHANGED <<authVars, subjects, exams, examVars>>


(***************************************************************************)
(* Requests on subjects, exams and questions, sent by any identity         *)
(***************************************************************************)
\* the request as the database receives it
WriteRequest(table, op, uid, id) ==
    [table |-> table, op |-> op, caller |-> uid,
     callerRole |-> get_current_user_role(uid), target |-> id, role |-> NULL]

ExamsOfSubject(s) == {e \in ExamIds : exams[e] # NoRow /\ exams[e].subject_id = s}

\* deleting exams deletes their questions and attempts, and with the
\* attempts their answers
ExamsDeleted(E) ==
    /\ exams' = [e \in ExamIds |-> IF e \in E THEN NoRow ELSE exams[e]]
    /\ questions' = [q \in QuestionIds |->
                       IF questions[q] # NoRow /\ questions[q].exam_id \in E
                       THEN NoRow ELSE questions[q]]
    /\ attempts' = [a \in AttemptIds |->
                      IF attempts[a] # NoRow /\ attempts[a].exam_id \in E
                      THEN NoRow ELSE attempts[a]]
    /\ answers' = [k \in AnswerKeys |->
                     IF attempts[k[1]] # NoRow /\ attempts[k[1]].exam_id \in E
                     THEN NoRow ELSE answers[k]]

\* insert into subjects: the policy checks the new row
InsertSubject(uid, s, active) ==
    /\ subjects[s] = NoRow
    /\ lastOp' = WriteRequest("subjects", "insert", uid, s)
    /\ subjects' = IF AdminPolicy(uid)
                   THEN [subjects EXCEPT ![s] = [is_active |-> active]]
                   ELSE subjects
    /\ UNCHANGED <<profiles, exams, questions, qm, examVars>>

\* update subjects set ... where id = s: rows the policy hides are not updated
UpdateSubject(uid, s, active) ==
    /\ lastOp' = WriteRequest("subjects", "update", uid, s)
    /\ subjects' = IF AdminPolicy(uid) /\ subjects[s] # NoRow
                   THEN [subjects EXCEPT ![s].is_active = active]
                   ELSE subjects
    /\ UNCHANGED <<profiles, exams, questions, qm, examVars>>

\* a delete from subjects that leaves the exams of the subject in place
DeleteSubjectRowOnly(uid, s) ==
    /\ lastOp' = WriteRequest("subjects", "delete", uid, s)
    /\ subjects' = IF AdminPolicy(uid) THEN [subjects EXCEPT ![s] = NoRow] ELSE subjects
    /\ UNCHANGED <<profiles, exams, questions, qm, examVars>>

\* delete from subjects where id = s: rows the policy hides are not deleted
DeleteSubject(uid, s) ==
    /\ lastOp' = WriteRequest("subjects", "delete", uid, s)
    /\ IF AdminPolicy(uid) /\ subjects[s] # NoRow
       THEN /\ subjects' = [subjects EXCEPT ![s] = NoRow]
            /\ ExamsDeleted(ExamsOfSubject(s))
       ELSE UNCHANGED <<subjects, exams, questions, attempts, answers>>
    /\ UNCHANGED <<profiles, qm, corrections, now, client, used>>

InsertExam(uid, e, s, duration, total, active) ==
    /\ exams[e] = NoRow
    /\ lastOp' = WriteRequest("exams", "insert", uid, e)
    /\ exams' = IF AdminPolicy(uid) /\ subjects[s] # NoRow
                THEN [exams EXCEPT ![e] = [subject_id |-> s, is_active |-> active,
                                           total_marks |-> total,
                                           duration_minutes |-> duration]]
                ELSE exams
    /\ UNCHANGED <<profiles, subjects, questions, qm, examVars>>

UpdateExam(uid, e, active) ==
    /\ lastOp' = WriteRequest("exams", "update", uid, e)
    /\ exams' = IF AdminPolicy(uid) /\ exams[e] # NoRow
                THEN [exams EXCEPT ![e].is_active = active]
                ELSE exams
    /\ UNCHANGED <<profiles, subjects, questions, qm, examVars>>

DeleteExam(uid, e) ==
    /\ lastOp' = WriteRequest("exams", "delete", uid, e)
    /\ IF AdminPolicy(uid) /\ exams[e] # NoRow
       THEN ExamsDeleted({e})
       ELSE UNCHANGED <<exams, questions, attempts, answers>>
    /\ UNCHANGED <<profiles, subjects, qm, corrections, now, client, used>>

InsertQuestion(uid, q, e, marks, correct) ==
    /\ questions[q] = NoRow
    /\ lastOp' = WriteRequest("questions", "insert", uid, q)
    /\ questions' = IF AdminPolicy(uid) /\ exams[e] # NoRow
                    THEN [questions EXCEPT ![q] = [exam_id |-> e, marks |-> marks,
                                                   correct_answer |-> correct]]
                    ELSE questions
    /\ UNCHANGED <<profiles, subjects, exams, qm, examVars>>

UpdateQuestion(uid, q, marks, correct) ==
    /\ lastOp' = WriteRequest("questions", "update", uid, q)
    /\ questions' = IF AdminPolicy(uid) /\ questions[q] # NoRow
                    THEN [questions EXCEPT ![q].marks = marks,
                                           ![q].correct_answer = correct]
                    ELSE questions
    /\ UNCHANGED <<profiles, subjects, exams, qm, examVars>>

DeleteQuestion(uid, q) ==
    /\ lastOp' = WriteRequest("questions", "delete", uid, q)
    /\ questions' = IF AdminPolicy(uid)
                    THEN [questions EXCEPT ![q] = NoRow]
                    ELSE questions
    /\ UNCHANGED <<profiles, subjects, exams, qm, examVars>>

\* AdminPanel.deleteSubject and AdminPanel.deleteExam, behind the page's admin gate
deleteSubject(id) ==
    /\ get_current_user_role(AdminUser) = "admin"
    /\ subjects[id] # NoRow
    /\ DeleteSubject(AdminUser, id)

deleteExam(id) ==
    /\ get_current_user_role(AdminUser) = "admin"
    /\ exams[id] # NoRow
    /\ DeleteExam(AdminUser, id)

\* every identity sends writes to subjects, exams and questions while the
\* admins change roles
NextWrites ==
    \/ \E uid \in Identities, s \in SubjectIds, a \in BOOLEAN : InsertSubject(uid, s, a)
    \/ \E uid \in Identities, s \in SubjectIds, a \in BOOLEAN : UpdateSubject(uid, s, a)
    \/ \E uid \in Identities, s \in SubjectIds : DeleteSubject(uid, s)
    \/ \E uid \in Identities, e \in ExamIds, s \in SubjectIds, d \in DurationChoices,
          t \in FormTotalChoices, a \in BOOLEAN : InsertExam(uid, e, s, d, t, a)
    \/ \E uid \in Identities, e \in ExamIds, a \in BOOLEAN : UpdateExam(uid, e, a)
    \/ \E uid \in Identities, e \in ExamIds : DeleteExam(uid, e)
    \/ \E uid \in Identities, q \in QuestionIds, e \in ExamIds, m \in MarkChoices,
          c \in AnswerChoices : InsertQuestion(uid, q, e, m, c)
    \/ \E uid \in Identities, q \in QuestionIds, m \in MarkChoices,
          c \in AnswerChoices : UpdateQuestion(uid, q, m, c)
    \/ \E uid \in Identities, q \in QuestionIds : DeleteQuestion(uid, q)
    \/ \E uid \in Identities, id \in Identities : toggleUserRole(uid, id)


(***************************************************************************)
(* Student side: Dashboard and the Exam page                              *)
(***************************************************************************)
StudentUser == "u2"

Max(a, b) == IF a > b THEN a ELSE b

RECURSIVE Gcd(_, _)
Gcd(a, b) == IF b = 0 THEN a ELSE Gcd(b, a % b)

\* a number score / total * 100 kept exact, as a reduced fraction
Ratio(n, d) == LET g == Gcd(n, d) IN [num |-> n \div g, den |-> d \div g]

\* const percentage = exam?.total_marks ? (score / exam.total_marks) * 100 : 0
Percentage(score, total_marks) ==
    IF total_marks # 0 THEN Ratio(score * 100, total_marks) ELSE Ratio(0, 1)

\* the React state of a freshly mounted Exam component
FreshPage == [exam |-> NoRow, questions |-> {}, currentAttempt |-> NoAttempt,
              answers |-> [q \in QuestionIds |-> NULL], timeRemaining |-> 0,
              isSubmitting |-> FALSE]

IdleSubmit == [pc |-> "idle", attempt |-> NoAttempt, total_marks |-> 0, score |-> 0]

\* handleSubmitExam ended in its catch: toast.error('Failed to submit exam')
FailedSubmit == [pc |-> "failed", attempt |-> NoAttempt, total_marks |-> 0, score |-> 0]

\* a session of the signed-in student on the dashboard; submit is the
\* handleSubmitExam call of the latest Exam component, left the call of an
\* earlier component that was unmounted while the call was running
InitClient == [user |-> StudentUser, pc |-> "dashboard", examId |-> NULL, exams |-> {},
               total_marks |-> 0,
               page |-> FreshPage, submit |-> IdleSubmit, left |-> IdleSubmit]

InitExamSide ==
    /\ attempts = [a \in AttemptIds |-> NoRow]
    /\ answers = [k \in AnswerKeys |-> NoRow]
    /\ corrections = {}
    /\ now = 0
    /\ client = [c \in Sessions |-> InitClient]
    /\ used = 0

\* rows of exam_attempts matching .eq('exam_id').eq('student_id').eq('status', 'in_progress')
InProgressOf(student, e) ==
    {a \in AttemptIds : /\ attempts[a] # NoRow
                        /\ attempts[a].exam_id = e
                        /\ attempts[a].student_id = student
                        /\ attempts[a].status = "in_progress"}

\* .single(): the row when exactly one matches, else error PGRST116 with no
\* data; a failed request has no data and another error code
Single(rows, outcome) ==
    IF outcome = "error" THEN [data |-> NoAttempt, error |-> "FAILED"]
    ELSE IF Cardinality(rows) = 1
    THEN [data |-> CHOOSE a \in rows : TRUE, error |-> NULL]
    ELSE [data |-> NoAttempt, error |-> "PGRST116"]

FreeAttemptIds == {a \in AttemptIds : attempts[a] = NoRow}

NewAttemptId == CHOOSE a \in FreeAttemptIds : \A b \in FreeAttemptIds : a <= b

\* insert into exam_attempts: started_at defaults to the time of the insert
NewAttempt(student, e, total_marks) ==
    [exam_id |-> e, student_id |-> student, status |-> "in_progress",
     started_at |-> now, completed_at |-> -1, score |-> -1, percentage |-> NoRow,
     total_marks |-> total_marks]

\* Dashboard.fetchExams: .eq('is_active', true)
fetchExams(c) ==
    /\ client[c].pc = "dashboard"
    /\ client' = [client EXCEPT ![c].exams =
                    {e \in ExamIds : exams[e] # NoRow /\ exams[e].is_active}]
    /\ UNCHANGED <<authVars, adminVars, attempts, answers, corrections, now>>

\* navigate(`/exam/${examId}`): a fresh Exam component; its load effect calls fetchExamData
ExamPageOpened(cl, e) == [cl EXCEPT !.pc = "fd_exam", !.examId = e, !.page = FreshPage]

\* navigate('/dashboard'): the Exam component unmounts
DashboardOpened(cl) == [cl EXCEPT !.pc = "dashboard", !.page = FreshPage]

\* Dashboard.startExam up to the lookup's answer: the error is not read
startExamLookup(c, e, outcome) ==
    /\ client[c].pc = "dashboard"
    /\ client[c].submit.pc \in {"idle", "failed"}
    /\ e \in client[c].exams
    /\ LET activeAttempt == Single(InProgressOf(client[c].user, e), outcome).data
       IN client' = [client EXCEPT ![c] =
              IF activeAttempt # NoAttempt
              THEN ExamPageOpened(@, e)
              ELSE [@ EXCEPT !.pc = "se_exam", !.examId = e]]
    /\ UNCHANGED <<authVars, adminVars, attempts, answers, corrections, now>>

\* startExam: the exam's total_marks, .single()
startExamDetails(c, outcome) ==
    /\ client[c].pc = "se_exam"
    /\ LET e == client[c].examId
       IN client' = [client EXCEPT ![c] =
              IF outcome = "error" \/ exams[e] = NoRow
              THEN [@ EXCEPT !.pc = "dashboard"]
              ELSE [@ EXCEPT !.pc = "se_insert", !.total_marks = exams[e].total_marks]]
    /\ UNCHANGED <<authVars, adminVars, attempts, answers, corrections, now>>

\* startExam: the insert, then navigate to the exam page
startExamInsert(c, outcome) ==
    /\ client[c].pc = "se_insert"
    /\ LET e == client[c].examId
       IN IF outcome = "error" \/ exams[e] = NoRow
          THEN /\ client' = [client EXCEPT ![c].pc = "dashboard"]
               /\ attempts' = attempts
          ELSE /\ FreeAttemptIds # {}
               /\ attempts' = [attempts EXCEPT ![NewAttemptId] =
                                 NewAttempt(client[c].user, e, client[c].total_marks)]
               /\ client' = [client EXCEPT ![c] = ExamPageOpened(@, e)]
    /\ UNCHANGED <<authVars, adminVars, answers, corrections, now>>

\* the exam page is opened by its URL
openExamPage(c, e) ==
    /\ client[c].pc = "dashboard"
    /\ client[c].submit.pc \in {"idle", "failed"}
    /\ profiles[client[c].user] # NoRow
    /\ client' = [client EXCEPT ![c] = ExamPageOpened(@, e)]
    /\ UNCHANGED <<authVars, adminVars, attempts, answers, corrections, now>>

\* the student leaves the loaded exam page
leaveExamPage(c) ==
    /\ client[c].pc = "ready"
    /\ client' = [client EXCEPT ![c] = DashboardOpened(@)]
    /\ UNCHANGED <<authVars, adminVars, attempts, answers, corrections, now>>

\* the exam page is opened again (Navigation, then the exam's card or URL)
\* while the handleSubmitExam call of the page that was left is still
\* running: the new component starts with isSubmitting = false
reopenExamPage(c, e) ==
    /\ client[c].pc = "dashboard"
    /\ client[c].submit.pc \in {"read", "update"}
    /\ client[c].left.pc \in {"idle", "failed"}
    /\ profiles[client[c].user] # NoRow
    /\ client' = [client EXCEPT ![c] =
                    [ExamPageOpened(@, e) EXCEPT !.left = client[c].submit,
                                                 !.submit = IdleSubmit]]
    /\ UNCHANGED <<authVars, adminVars, attempts, answers, corrections, now>>

\* handleSubmitExam up to its first request: if (isSubmitting) return;
\* setIsSubmitting(true); the closure holds currentAttempt and exam
SubmitBegun(cl) ==
    [cl EXCEPT !.page.isSubmitting = TRUE,
               !.submit = [pc |-> "read", attempt |-> cl.page.currentAttempt,
                           total_marks |-> IF cl.page.exam = NoRow THEN 0
                                           ELSE cl.page.exam.total_marks,
                           score |-> 0]]

SubmitCalled(cl) ==
    IF cl.page.isSubmitting THEN cl ELSE SubmitBegun(cl)

\* a timer effect that submits as soon as an attempt is loaded
TimerEffectEarly(cl) ==
    IF cl.page.currentAttempt # NoAttempt THEN SubmitCalled(cl) ELSE cl

\* the timer effect, run after timeRemaining or currentAttempt changed:
\* at zero with an attempt loaded it calls handleSubmitExam
TimerEffect(cl) ==
    IF cl.page.timeRemaining = 0 /\ cl.page.currentAttempt # NoAttempt
    THEN SubmitCalled(cl)
    ELSE cl

\* fetchExamData: the exam by id, .single(); an inactive exam sends the
\* student back to the dashboard
fetchExamDataExam(c, outcome) ==
    /\ client[c].pc = "fd_exam"
    /\ LET e == client[c].examId
       IN client' = [client EXCEPT ![c] =
              IF outcome = "error" \/ exams[e] = NoRow THEN DashboardOpened(@)
              ELSE IF ~exams[e].is_active THEN DashboardOpened(@)
              ELSE [@ EXCEPT !.pc = "fd_lookup", !.page.exam = exams[e]]]
    /\ UNCHANGED <<authVars, adminVars, attempts, answers, corrections, now>>

\* Math.max(0, duration_minutes - Math.floor((now - startTime) / (1000 * 60))) * 60
SecondsPerMinute == 60

\* the remaining minutes without the clamp at zero
RemainingUnclamped(started_at, duration_minutes) ==
    (duration_minutes - ((now - started_at) \div SecondsPerMinute)) * SecondsPerMinute

RemainingOnResume(started_at, duration_minutes) ==
    Max(0, duration_minutes - ((now - started_at) \div SecondsPerMinute)) * SecondsPerMinute

\* fetchExamData: the in-progress lookup, .single(); only PGRST116 is let
\* through.  With a row: resume it (setCurrentAttempt, setTimeRemaining)
fetchExamDataLookup(c, outcome) ==
    /\ client[c].pc = "fd_lookup"
    /\ LET e == client[c].examId
           res == Single(InProgressOf(client[c].user, e), outcome)
       IN client' = [client EXCEPT ![c] =
              IF res.error # NULL /\ res.error # "PGRST116" THEN DashboardOpened(@)
              ELSE IF res.data # NoAttempt
              THEN TimerEffect([@ EXCEPT
                       !.pc = "fd_answers",
                       !.page.currentAttempt = res.data,
                       !.page.timeRemaining =
                           RemainingOnResume(attempts[res.data].started_at,
                                             client[c].page.exam.duration_minutes)])
              ELSE [@ EXCEPT !.pc = "fd_insert"]]
    /\ UNCHANGED <<authVars, adminVars, attempts, answers, corrections, now>>

\* fetchExamData, resuming: the saved answers of the attempt
fetchExamDataAnswers(c, outcome) ==
    /\ client[c].pc = "fd_answers"
    /\ LET a == client[c].page.currentAttempt
       IN client' = [client EXCEPT ![c] =
              IF outcome = "error" THEN DashboardOpened(@)
              ELSE [@ EXCEPT !.pc = "fd_questions",
                             !.page.answers = [q \in QuestionIds |->
                                 IF answers[<<a, q>>] = NoRow THEN NULL
                                 ELSE answers[<<a, q>>].selected_answer]]]
    /\ UNCHANGED <<authVars, adminVars, attempts, answers, corrections, now>>

\* an insert that looks again and joins the attempt that is in progress by then
fetchExamDataInsertOnce(c, outcome) ==
    /\ client[c].pc = "fd_insert"
    /\ LET e == client[c].examId
           found == InProgressOf(client[c].user, e)
       IN IF outcome = "error" \/ exams[e] = NoRow
          THEN /\ client' = [client EXCEPT ![c] = DashboardOpened(@)]
               /\ attempts' = attempts
          ELSE /\ FreeAttemptIds # {}
               /\ attempts' = IF found # {} THEN attempts
                              ELSE [attempts EXCEPT ![NewAttemptId] =
                                      NewAttempt(client[c].user, e, client[c].page.exam.total_marks)]
               /\ client' = [client EXCEPT ![c] = TimerEffect([@ EXCEPT
                      !.pc = "fd_questions",
                      !.page.currentAttempt = IF found # {} THEN CHOOSE a \in found : TRUE
                                              ELSE NewAttemptId,
                      !.page.timeRemaining =
                          client[c].page.exam.duration_minutes * SecondsPerMinute])]
    /\ UNCHANGED <<authVars, adminVars, answers, corrections, now>>

\* fetchExamData, no row found: insert a new attempt with the exam's
\* total_marks as loaded, setCurrentAttempt, setTimeRemaining
fetchExamDataInsert(c, outcome) ==
    /\ client[c].pc = "fd_insert"
    /\ LET e == client[c].examId
       IN IF outcome = "error" \/ exams[e] = NoRow
          THEN /\ client' = [client EXCEPT ![c] = DashboardOpened(@)]
               /\ attempts' = attempts
          ELSE /\ FreeAttemptIds # {}
               /\ attempts' = [attempts EXCEPT ![NewAttemptId] =
                                 NewAttempt(client[c].user, e, client[c].page.exam.total_marks)]
               /\ client' = [client EXCEPT ![c] = TimerEffect([@ EXCEPT
                      !.pc = "fd_questions",
                      !.page.currentAttempt = NewAttemptId,
                      !.page.timeRemaining =
                          client[c].page.exam.duration_minutes * SecondsPerMinute])]
    /\ UNCHANGED <<authVars, adminVars, answers, corrections, now>>

\* fetchExamData: the questions of the exam; finally setLoading(false)
fetchExamDataQuestions(c, outcome) ==
    /\ client[c].pc = "fd_questions"
    /\ client' = [client EXCEPT ![c] =
          IF outcome = "error" THEN DashboardOpened(@)
          ELSE [@ EXCEPT !.pc = "ready", !.page.questions = QuestionsOf(client[c].examId)]]
    /\ UNCHANGED <<authVars, adminVars, attempts, answers, corrections, now>>

\* the question card and the Submit button are rendered
PageRendered(c) ==
    /\ client[c].pc = "ready"
    /\ get_current_user_role(client[c].user) = "student"
    /\ client[c].page.questions # {}

\* a student may create, read and update only the exam_attempts rows whose
\* student_id is their own identity
OwnAttemptPolicy(uid, attempt) ==
    attempts[attempt] # NoRow /\ attempts[attempt].student_id = uid

\* a student may create, read and update only the student_answers rows whose
\* parent attempt belongs to them
OwnAnswerPolicy(uid, attempt) == OwnAttemptPolicy(uid, attempt)

\* the answer to a select: the rows a policy shows to the caller
ReadRequest(table, uid, rows) ==
    [table |-> table, op |-> "select", caller |-> uid,
     callerRole |-> get_current_user_role(uid), target |-> NULL, role |-> NULL,
     rows |-> rows]

\* select from exam_attempts sent by uid
SelectAttempts(uid) ==
    /\ lastOp' = ReadRequest("exam_attempts", uid,
                     {a \in AttemptIds : /\ attempts[a] # NoRow
                                         /\ AdminPolicy(uid) \/ OwnAttemptPolicy(uid, a)})
    /\ UNCHANGED <<profiles, adminVars, examVars>>

\* select from student_answers sent by uid
SelectAnswers(uid) ==
    /\ lastOp' = ReadRequest("student_answers", uid,
                     {k \in AnswerKeys :
                         /\ answers[k] # NoRow
                         /\ AdminPolicy(uid) \/ OwnAnswerPolicy(uid, k[1])})
    /\ UNCHANGED <<profiles, adminVars, examVars>>

\* an insert that leaves a row already stored for the pair as it is
InsertAnswerOnce(uid, attempt, q, answer) ==
    IF attempt = NoAttempt \/ attempts[attempt] = NoRow \/ questions[q] = NoRow
       \/ answers[<<attempt, q>>] # NoRow
    THEN answers
    ELSE [answers EXCEPT ![<<attempt, q>>] =
            [selected_answer |-> answer, is_correct |-> NULL]]

\* an upsert that replaces the whole row, is_correct included
ReplaceAnswer(uid, attempt, q, answer) ==
    IF attempt = NoAttempt \/ attempts[attempt] = NoRow \/ questions[q] = NoRow
    THEN answers
    ELSE [answers EXCEPT ![<<attempt, q>>] =
            [selected_answer |-> answer, is_correct |-> NULL]]

\* upsert into student_answers keyed by (attempt_id, question_id): the
\* request is refused when the attempt or the question is gone
UpsertAnswer(uid, attempt, q, answer) ==
    IF attempt = NoAttempt \/ ~OwnAnswerPolicy(uid, attempt) \/ questions[q] = NoRow
    THEN answers
    ELSE [answers EXCEPT ![<<attempt, q>>] =
            [selected_answer |-> answer,
             is_correct |-> IF @ = NoRow THEN NULL ELSE @.is_correct]]

\* Exam.handleAnswerSelect: setAnswers, then the upsert; an error is only shown
handleAnswerSelect(c, q, answer, outcome) ==
    /\ PageRendered(c)
    /\ q \in client[c].page.questions
    /\ client' = [client EXCEPT ![c].page.answers[q] = answer]
    /\ answers' = IF outcome = "ok"
                  THEN UpsertAnswer(client[c].user, client[c].page.currentAttempt, q, answer)
                  ELSE answers
    /\ UNCHANGED <<authVars, adminVars, attempts, corrections, now>>

\* the Submit button (disabled while isSubmitting)
handleSubmitExamClick(c) ==
    /\ PageRendered(c)
    /\ ~client[c].page.isSubmitting
    /\ client' = [client EXCEPT ![c] = SubmitCalled(@)]
    /\ UNCHANGED <<authVars, adminVars, attempts, answers, corrections, now>>

\* the rows handleSubmitExam reads: student_answers of the attempt joined
\* with questions(correct_answer, marks), in question order
AnswersData(attempt) ==
    LET present == {q \in QuestionIds : answers[<<attempt, q>>] # NoRow /\ questions[q] # NoRow}
        row(q) == [question_id |-> q,
                   selected_answer |-> answers[<<attempt, q>>].selected_answer,
                   correct_answer |-> questions[q].correct_answer,
                   marks |-> questions[q].marks]
        RECURSIVE InOrder(_)
        InOrder(S) == IF S = {} THEN <<>>
                      ELSE LET q == CHOOSE x \in S : TRUE
                           IN <<row(q)>> \o InOrder(S \ {q})
    IN InOrder(present)

\* the marks of every row read, right or wrong
RECURSIVE ScoreCountsAll(_)
ScoreCountsAll(data) ==
    IF data = <<>> THEN 0 ELSE Head(data).marks + ScoreCountsAll(Tail(data))

\* answersData.forEach: isCorrect, score += marks when correct
RECURSIVE Score(_)
Score(data) ==
    IF data = <<>> THEN 0
    ELSE LET answer == Head(data)
             isCorrect == answer.selected_answer = answer.correct_answer
         IN (IF isCorrect THEN answer.marks ELSE 0) + Score(Tail(data))

\* the is_correct updates sent, one per row read, none awaited
CorrectionsOf(attempt, data) ==
    {[attempt_id |-> attempt, question_id |-> data[i].question_id,
      is_correct |-> IF data[i].selected_answer = data[i].correct_answer
                     THEN "true" ELSE "false"] : i \in 1..Len(data)}

\* a catch that reports the failure and leaves isSubmitting set
SubmitFailedKeepsFlag(cl) ==
    [cl EXCEPT !.submit = FailedSubmit]

\* catch of handleSubmitExam: setIsSubmitting(false)
SubmitFailed(cl) ==
    [cl EXCEPT !.page.isSubmitting = FALSE, !.submit = FailedSubmit]

\* handleSubmitExam: the answers are read and scored
handleSubmitExamRead(c, outcome) ==
    /\ client[c].submit.pc = "read"
    /\ IF outcome = "error"
       THEN /\ client' = [client EXCEPT ![c] = SubmitFailed(@)]
            /\ corrections' = corrections
       ELSE LET data == AnswersData(client[c].submit.attempt)
            IN /\ client' = [client EXCEPT ![c].submit.pc = "update",
                                           ![c].submit.score = Score(data)]
               /\ corrections' = corrections \cup CorrectionsOf(client[c].submit.attempt, data)
    /\ UNCHANGED <<authVars, adminVars, attempts, answers, now>>

\* a completion that also clears the attempt's total_marks
CompleteAttemptClearsTotal(uid, attempt, score, percentage) ==
    IF attempt = NoAttempt \/ attempts[attempt] = NoRow
    THEN attempts
    ELSE [attempts EXCEPT ![attempt].status = "completed",
                          ![attempt].score = score,
                          ![attempt].percentage = percentage,
                          ![attempt].completed_at = now,
                          ![attempt].total_marks = 0]

\* update exam_attempts set status, score, percentage, completed_at where id = ...
CompleteAttempt(uid, attempt, score, percentage) ==
    IF attempt = NoAttempt \/ ~OwnAttemptPolicy(uid, attempt)
    THEN attempts
    ELSE [attempts EXCEPT ![attempt].status = "completed",
                          ![attempt].score = score,
                          ![attempt].percentage = percentage,
                          ![attempt].completed_at = now]

\* an update that scores the answers again as they are stored by then
handleSubmitExamUpdateRescored(c, outcome) ==
    /\ client[c].submit.pc = "update"
    /\ IF outcome = "error"
       THEN /\ client' = [client EXCEPT ![c] = SubmitFailed(@)]
            /\ attempts' = attempts
       ELSE LET score == Score(AnswersData(client[c].submit.attempt))
            IN /\ attempts' = CompleteAttempt(client[c].user, client[c].submit.attempt, score,
                                  Percentage(score, client[c].submit.total_marks))
               /\ client' = [client EXCEPT ![c] =
                                [DashboardOpened(@) EXCEPT !.submit = IdleSubmit]]
    /\ UNCHANGED <<authVars, adminVars, answers, corrections, now>>

\* handleSubmitExam: the attempt is updated; on success navigate('/dashboard')
handleSubmitExamUpdate(c, outcome) ==
    /\ client[c].submit.pc = "update"
    /\ IF outcome = "error"
       THEN /\ client' = [client EXCEPT ![c] = SubmitFailed(@)]
            /\ attempts' = attempts
       ELSE /\ attempts' = CompleteAttempt(client[c].user, client[c].submit.attempt,
                               client[c].submit.score,
                               Percentage(client[c].submit.score, client[c].submit.total_marks))
            /\ client' = [client EXCEPT ![c] = [DashboardOpened(@) EXCEPT !.submit = IdleSubmit]]
    /\ UNCHANGED <<authVars, adminVars, answers, corrections, now>>

\* handleSubmitExam of an unmounted component: the answers are read and
\* scored; in the catch setIsSubmitting(false) reaches no mounted component
handleSubmitExamReadUnmounted(c, outcome) ==
    /\ client[c].left.pc = "read"
    /\ IF outcome = "error"
       THEN /\ client' = [client EXCEPT ![c].left = FailedSubmit]
            /\ corrections' = corrections
       ELSE LET data == AnswersData(client[c].left.attempt)
            IN /\ client' = [client EXCEPT ![c].left.pc = "update",
                                           ![c].left.score = Score(data)]
               /\ corrections' = corrections \cup CorrectionsOf(client[c].left.attempt, data)
    /\ UNCHANGED <<authVars, adminVars, attempts, answers, now>>

\* handleSubmitExam of an unmounted component: the attempt is updated; on
\* success navigate('/dashboard') unmounts the page that is open by then
handleSubmitExamUpdateUnmounted(c, outcome) ==
    /\ client[c].left.pc = "update"
    /\ IF outcome = "error"
       THEN /\ client' = [client EXCEPT ![c].left = FailedSubmit]
            /\ attempts' = attempts
       ELSE /\ attempts' = CompleteAttempt(client[c].user, client[c].left.attempt,
                               client[c].left.score,
                               Percentage(client[c].left.score, client[c].left.total_marks))
            /\ client' = [client EXCEPT ![c] = [DashboardOpened(@) EXCEPT !.left = IdleSubmit]]
    /\ UNCHANGED <<authVars, adminVars, answers, corrections, now>>

\* an is_correct update whose failure ends the Submit that sent it in its catch
updateIsCorrectAborts(u, outcome) ==
    /\ u \in corrections
    /\ corrections' = corrections \ {u}
    /\ answers' = IF outcome = "ok" /\ answers[<<u.attempt_id, u.question_id>>] # NoRow
                  THEN [answers EXCEPT ![<<u.attempt_id, u.question_id>>].is_correct = u.is_correct]
                  ELSE answers
    /\ client' = [c \in Sessions |->
                    IF /\ outcome = "error"
                       /\ client[c].submit.pc \in {"read", "update"}
                       /\ client[c].submit.attempt = u.attempt_id
                    THEN SubmitFailed(client[c])
                    ELSE client[c]]
    /\ UNCHANGED <<authVars, adminVars, attempts, now, used>>

\* one of the is_correct updates is executed, or lost
updateIsCorrect(u, outcome) ==
    /\ u \in corrections
    /\ corrections' = corrections \ {u}
    /\ answers' = IF outcome = "ok" /\ answers[<<u.attempt_id, u.question_id>>] # NoRow
                  THEN [answers EXCEPT ![<<u.attempt_id, u.question_id>>].is_correct = u.is_correct]
                  ELSE answers
    /\ UNCHANGED <<authVars, adminVars, attempts, now, client, used>>

\* the countdown runs on a mounted Exam component with timeRemaining > 0
TimerRuns(cl) == cl.pc # "dashboard" /\ cl.pc # "se_exam" /\ cl.pc # "se_insert"
                 /\ cl.page.timeRemaining > 0

\* the countdown decremented, the timer effect left out
TickedNoSubmit(cl) ==
    IF TimerRuns(cl) THEN [cl EXCEPT !.page.timeRemaining = @ - 1] ELSE cl

\* setTimeout(..., 1000): setTimeRemaining(prev => prev - 1), then the timer effect
Ticked(cl) ==
    IF TimerRuns(cl) THEN TimerEffect([cl EXCEPT !.page.timeRemaining = @ - 1]) ELSE cl

\* a second after which the database completes the attempts whose time is up
TickExpires(horizon) ==
    /\ now < horizon
    /\ now' = now + 1
    /\ client' = [c \in Sessions |-> Ticked(client[c])]
    /\ attempts' = [a \in AttemptIds |->
          IF /\ attempts[a] # NoRow
             /\ attempts[a].status = "in_progress"
             /\ exams[attempts[a].exam_id] # NoRow
             /\ now' - attempts[a].started_at
                   >= exams[attempts[a].exam_id].duration_minutes * SecondsPerMinute
          THEN [attempts[a] EXCEPT !.status = "completed", !.completed_at = now']
          ELSE attempts[a]]
    /\ UNCHANGED <<authVars, adminVars, answers, corrections, used>>

\* one second passes: the clock advances and every running countdown ticks
Tick(horizon) ==
    /\ now < horizon
    /\ now' = now + 1
    /\ client' = [c \in Sessions |-> Ticked(client[c])]
    /\ UNCHANGED <<authVars, adminVars, attempts, answers, corrections, used>>

\* a student begins to start or open an exam, which a run allows limit times
BeginStart(limit) ==
    /\ used < limit
    /\ used' = used + 1

\* Dashboard: the list of exams and startExam
NextDashboard(c, limit) ==
    \/ fetchExams(c) /\ UNCHANGED used
    \/ \E e \in ExamIds, o \in Outcomes : startExamLookup(c, e, o) /\ BeginStart(limit)
    \/ \E o \in Outcomes : startExamDetails(c, o) /\ UNCHANGED used
    \/ \E o \in Outcomes : startExamInsert(c, o) /\ UNCHANGED used

\* Exam page: opening, loading and leaving it
NextExamPage(c, limit) ==
    \/ \E e \in ExamIds : openExamPage(c, e) /\ BeginStart(limit)
    \/ leaveExamPage(c) /\ UNCHANGED used
    \/ \E o \in Outcomes : fetchExamDataExam(c, o) /\ UNCHANGED used
    \/ \E o \in Outcomes : fetchExamDataLookup(c, o) /\ UNCHANGED used
    \/ \E o \in Outcomes : fetchExamDataAnswers(c, o) /\ UNCHANGED used
    \/ \E o \in Outcomes : fetchExamDataInsert(c, o) /\ UNCHANGED used
    \/ \E o \in Outcomes : fetchExamDataQuestions(c, o) /\ UNCHANGED used

\* Exam page: answering and submitting
NextExamWork(c) ==
    \/ \E q \in QuestionIds, x \in AnswerChoices, o \in Outcomes :
           handleAnswerSelect(c, q, x, o) /\ UNCHANGED used
    \/ handleSubmitExamClick(c) /\ UNCHANGED used
    \/ \E o \in Outcomes : handleSubmitExamRead(c, o) /\ UNCHANGED used
    \/ \E o \in Outcomes : handleSubmitExamUpdate(c, o) /\ UNCHANGED used

\* the database after the admin has created exam e1 and its questions
\* through createExam and QuestionManager, which has synchronised total_marks
SeededQuestions ==
    {[q \in QuestionIds |-> IF q = "q1"
                            THEN [exam_id |-> "e1", marks |-> 10, correct_answer |-> "B"]
                            ELSE NoRow],
     [q \in QuestionIds |-> IF q = "q1"
                            THEN [exam_id |-> "e1", marks |-> 10, correct_answer |-> "B"]
                            ELSE [exam_id |-> "e1", marks |-> 1, correct_answer |-> "A"]]}

InitSeeded ==
    /\ InitProfiles
    /\ InitSubjects
    /\ questions \in SeededQuestions
    /\ \E d \in DurationChoices :
          exams = [e \in ExamIds |-> [subject_id |-> "s1", is_active |-> TRUE,
                                      duration_minutes |-> d,
                                      total_marks |-> MarksOfQuestions(e)]]
    /\ qm = [examId |-> NULL, questions |-> {}, fetching |-> {},
             totalWrites |-> {}, lastOp |-> "none"]
    /\ InitExamSide

Init == InitProfiles /\ InitDb /\ InitExamSide

InitOneQuestion == InitSeeded /\ questions["q2"] = NoRow

InitTwoQuestions == InitSeeded /\ questions["q2"] # NoRow

\* the exam of one question lasts a minute
InitStart == InitOneQuestion /\ exams["e1"].duration_minutes = 1

\* two sessions of the student on the exam page of one exam
Next ==
    \/ \E c \in Sessions : NextExamPage(c, MaxOpens)
    \/ \E c \in Sessions : NextExamWork(c)
    \/ \E u \in corrections, o \in Outcomes : updateIsCorrect(u, o)

Spec == InitStart /\ [][Next]_vars

\* a session is inside startExam or fetchExamData
Starting(c) == client[c].pc \notin {"dashboard", "ready"}

\* two sessions starting attempts; between their Start operations the admin
\* switches the exam on and off
NextStart ==
    \/ \E c \in Sessions : NextDashboard(c, MaxStarts)
    \/ \E c \in Sessions : NextExamPage(c, MaxStarts)
    \/ \E e \in ExamIds : updateExam(e) /\ \A c \in Sessions : ~Starting(c)

SpecStart == InitStart /\ [][NextStart]_vars

\* the Start operations never overlap
Sequential == \A c, d \in Sessions : Starting(c) /\ Starting(d) => c = d

\* the steps of NextStart that leave at most one session inside a Start
NextSeq ==
    \/ \E c \in Sessions : NextDashboard(c, MaxStarts) /\ Sequential'
    \/ \E c \in Sessions : NextExamPage(c, MaxStarts) /\ Sequential'
    \/ \E e \in ExamIds : updateExam(e) /\ \A c \in Sessions : ~Starting(c)

SpecSeq == InitStart /\ [][NextSeq]_vars

\* two sessions opening the exam page
NextPage == \E c \in Sessions : NextExamPage(c, MaxStarts)

SpecPage == InitStart /\ [][NextPage]_vars

\* the student has not taken any exam yet
NoAttemptYet == \A a \in AttemptIds : attempts[a] = NoRow

\* the questions of the QuestionManager
NextQuestionManager ==
    \/ \E e \in ExamIds : selectExamForQuestions(e)
    \/ \E e \in ExamIds, o \in Outcomes : fetchQuestions(e, o)
    \/ \E w \in qm.totalWrites, o \in Outcomes : updateExamTotalMarks(w, o)
    \/ \E q \in QuestionIds, m \in MarkChoices, c \in AnswerChoices, o \in Outcomes :
           handleSubmitCreate(q, m, c, o)
    \/ \E q \in QuestionIds, m \in MarkChoices, c \in AnswerChoices, o \in Outcomes :
           handleSubmitUpdate(q, m, c, o)
    \/ \E q \in QuestionIds, o \in Outcomes : handleDelete(q, o)

\* one session taking the exam once while the admin edits its questions
NextEdit ==
    \/ \E e \in ExamIds : openExamPage("t1", e) /\ NoAttemptYet /\ UNCHANGED used
    \/ leaveExamPage("t1") /\ UNCHANGED used
    \/ \E o \in Outcomes : fetchExamDataExam("t1", o) /\ UNCHANGED used
    \/ \E o \in Outcomes : fetchExamDataLookup("t1", o) /\ UNCHANGED used
    \/ \E o \in Outcomes : fetchExamDataInsert("t1", o) /\ UNCHANGED used
    \/ \E o \in Outcomes : fetchExamDataQuestions("t1", o) /\ UNCHANGED used
    \/ NextExamWork("t1")
    \/ \E u \in corrections, o \in Outcomes : updateIsCorrect(u, o)
    \/ \E e \in ExamIds : selectExamForQuestions(e)
    \/ \E e \in ExamIds, o \in Outcomes : fetchQuestions(e, o)
    \/ \E w \in qm.totalWrites, o \in Outcomes : updateExamTotalMarks(w, o)
    \/ \E q \in QuestionIds, m \in MarkChoices, c \in AnswerChoices, o \in Outcomes :
           handleSubmitUpdate(q, m, c, o)

SpecEdit == InitStart /\ [][NextEdit]_vars

\* one session taking an exam of one or two questions once
NextScore ==
    \/ \E e \in ExamIds : openExamPage("t1", e) /\ NoAttemptYet /\ UNCHANGED used
    \/ leaveExamPage("t1") /\ UNCHANGED used
    \/ \E o \in Outcomes : fetchExamDataExam("t1", o) /\ UNCHANGED used
    \/ \E o \in Outcomes : fetchExamDataLookup("t1", o) /\ UNCHANGED used
    \/ \E o \in Outcomes : fetchExamDataInsert("t1", o) /\ UNCHANGED used
    \/ \E o \in Outcomes : fetchExamDataQuestions("t1", o) /\ UNCHANGED used
    \/ NextExamWork("t1")
    \/ \E u \in corrections, o \in Outcomes : updateIsCorrect(u, o)

\* the exam of one or of two questions lasts a minute
InitScore == InitSeeded /\ exams["e1"].duration_minutes = 1

SpecScore == InitScore /\ [][NextScore]_vars

\* a second of a running countdown
CountdownSecond == Tick(TimerHorizon) /\ TimerRuns(client["t1"])

\* one session taking the exam once while the clock runs
NextTimer ==
    \/ \E e \in ExamIds : openExamPage("t1", e) /\ NoAttemptYet /\ UNCHANGED used
    \/ leaveExamPage("t1") /\ UNCHANGED used
    \/ \E o \in Outcomes : fetchExamDataExam("t1", o) /\ UNCHANGED used
    \/ \E o \in Outcomes : fetchExamDataLookup("t1", o) /\ UNCHANGED used
    \/ \E o \in Outcomes : fetchExamDataInsert("t1", o) /\ UNCHANGED used
    \/ \E o \in Outcomes : fetchExamDataQuestions("t1", o) /\ UNCHANGED used
    \/ NextExamWork("t1")
    \/ CountdownSecond

\* timers fire and every request is answered, with success or with an error
FairTimer ==
    /\ WF_vars(CountdownSecond)
    /\ WF_vars(\E o \in Outcomes : fetchExamDataExam("t1", o) /\ UNCHANGED used)
    /\ WF_vars(\E o \in Outcomes : fetchExamDataLookup("t1", o) /\ UNCHANGED used)
    /\ WF_vars(\E o \in Outcomes : fetchExamDataInsert("t1", o) /\ UNCHANGED used)
    /\ WF_vars(\E o \in Outcomes : fetchExamDataQuestions("t1", o) /\ UNCHANGED used)
    /\ WF_vars(\E o \in Outcomes : handleSubmitExamRead("t1", o) /\ UNCHANGED used)
    /\ WF_vars(\E o \in Outcomes : handleSubmitExamUpdate("t1", o) /\ UNCHANGED used)

SpecTimer == InitOneQuestion /\ [][NextTimer]_vars /\ FairTimer

SpecAuth == Init /\ [][NextAuth]_vars

\* the admin panel on an empty database
NextAdmin ==
    \/ \E e \in ExamIds, s \in SubjectIds, d \in DurationChoices,
          t \in FormTotalChoices, a \in BOOLEAN :
           createExam(e, s, d, t, a)
    \/ \E e \in ExamIds : updateExam(e)
    \/ NextQuestionManager

SpecAdmin == Init /\ [][NextAdmin]_vars

\* durations of the exam the student comes back to
ResumeDurations == {1, 2}

\* the exam of one question lasts one or two minutes
InitResume ==
    /\ InitProfiles
    /\ InitSubjects
    /\ questions \in SeededQuestions
    /\ questions["q2"] = NoRow
    /\ \E d \in ResumeDurations :
          exams = [e \in ExamIds |-> [subject_id |-> "s1", is_active |-> TRUE,
                                      duration_minutes |-> d,
                                      total_marks |-> MarksOfQuestions(e)]]
    /\ qm = [examId |-> NULL, questions |-> {}, fetching |-> {},
             totalWrites |-> {}, lastOp |-> "none"]
    /\ InitExamSide

\* the student has an attempt to come back to
AttemptOpen == \E e \in ExamIds : InProgressOf(StudentUser, e) # {}

\* one session that starts the exam, leaves the page and comes back to the
\* attempt while the clock runs
NextResume ==
    \/ \E e \in ExamIds : /\ openExamPage("t1", e)
                          /\ NoAttemptYet \/ AttemptOpen
                          /\ BeginStart(MaxOpens)
    \/ leaveExamPage("t1") /\ UNCHANGED used
    \/ \E o \in Outcomes : fetchExamDataExam("t1", o) /\ UNCHANGED used
    \/ \E o \in Outcomes : fetchExamDataLookup("t1", o) /\ UNCHANGED used
    \/ \E o \in Outcomes : fetchExamDataAnswers("t1", o) /\ UNCHANGED used
    \/ \E o \in Outcomes : fetchExamDataInsert("t1", o) /\ UNCHANGED used
    \/ \E o \in Outcomes : fetchExamDataQuestions("t1", o) /\ UNCHANGED used
    \/ handleSubmitExamClick("t1") /\ UNCHANGED used
    \/ \E o \in Outcomes : handleSubmitExamRead("t1", o) /\ UNCHANGED used
    \/ \E o \in Outcomes : handleSubmitExamUpdate("t1", o) /\ UNCHANGED used
    \/ Tick(ResumeHorizon) /\ AttemptOpen

SpecResume == InitResume /\ [][NextResume]_vars

\* one session starting the exam once, from the dashboard or by the page's
\* URL, and taking it while the admin lowers the marks of the question, then
\* adds and removes a second question
NextSnapshot ==
    \/ fetchExams("t1") /\ UNCHANGED used
    \/ \E e \in ExamIds, o \in Outcomes :
           startExamLookup("t1", e, o) /\ NoAttemptYet /\ UNCHANGED used
    \/ \E o \in Outcomes : startExamDetails("t1", o) /\ UNCHANGED used
    \/ \E o \in Outcomes : startExamInsert("t1", o) /\ UNCHANGED used
    \/ \E e \in ExamIds : openExamPage("t1", e) /\ NoAttemptYet /\ UNCHANGED used
    \/ leaveExamPage("t1") /\ UNCHANGED used
    \/ \E o \in Outcomes : fetchExamDataExam("t1", o) /\ UNCHANGED used
    \/ \E o \in Outcomes : fetchExamDataLookup("t1", o) /\ UNCHANGED used
    \/ \E o \in Outcomes : fetchExamDataAnswers("t1", o) /\ UNCHANGED used
    \/ \E o \in Outcomes : fetchExamDataInsert("t1", o) /\ UNCHANGED used
    \/ \E o \in Outcomes : fetchExamDataQuestions("t1", o) /\ UNCHANGED used
    \/ \E x \in AnswerChoices, o \in Outcomes :
           handleAnswerSelect("t1", "q1", x, o) /\ UNCHANGED used
    \/ handleSubmitExamClick("t1") /\ UNCHANGED used
    \/ \E o \in Outcomes : handleSubmitExamRead("t1", o) /\ UNCHANGED used
    \/ \E o \in Outcomes : handleSubmitExamUpdate("t1", o) /\ UNCHANGED used
    \/ \E u \in corrections : updateIsCorrect(u, "ok")
    \/ \E e \in ExamIds : selectExamForQuestions(e)
    \/ \E e \in ExamIds : fetchQuestions(e, "ok")
    \/ \E w \in qm.totalWrites : updateExamTotalMarks(w, "ok")
    \/ handleSubmitUpdate("q1", 1, "B", "ok") /\ questions["q1"].marks = 10
    \/ handleSubmitCreate("q2", 1, "A", "ok") /\ questions["q1"].marks = 1
    \/ handleDelete("q2", "ok")

SpecSnapshot == InitStart /\ [][NextSnapshot]_vars

SpecWrites == InitStart /\ [][NextWrites]_vars

\* two sessions starting attempts while the admin deletes the subject or the exam
NextCascade ==
    \/ \E c \in Sessions : NextDashboard(c, MaxStarts)
    \/ \E c \in Sessions : NextExamPage(c, MaxStarts)
    \/ \E s \in SubjectIds : deleteSubject(s)
    \/ \E e \in ExamIds : deleteExam(e)

SpecCascade == InitStart /\ [][NextCascade]_vars

\* the student has started the exam and answered its first question
InitAnswered ==
    /\ InitProfiles
    /\ InitSubjects
    /\ questions \in SeededQuestions
    /\ exams = [e \in ExamIds |-> [subject_id |-> "s1", is_active |-> TRUE,
                                   duration_minutes |-> 1,
                                   total_marks |-> MarksOfQuestions(e)]]
    /\ qm = [examId |-> NULL, questions |-> {}, fetching |-> {},
             totalWrites |-> {}, lastOp |-> "none"]
    /\ now = 0
    /\ attempts = [a \in AttemptIds |->
                      IF a = 1 THEN NewAttempt(StudentUser, "e1", 10) ELSE NoRow]
    /\ answers = [k \in AnswerKeys |->
                     IF k = <<1, "q1">>
                     THEN [selected_answer |-> "B", is_correct |-> NULL]
                     ELSE NoRow]
    /\ corrections = {}
    /\ client = [c \in Sessions |-> InitClient]
    /\ used = 0

\* every identity sends requests to the six tables behind an admin policy
NextRoles ==
    \/ \E uid \in Identities, id \in Identities, r \in Roles : InsertProfile(uid, id, r, "n0")
    \/ \E uid \in Identities, id \in Identities, r \in Roles : UpdateProfileRole(uid, id, r)
    \/ \E uid \in Identities, s \in SubjectIds, a \in BOOLEAN : InsertSubject(uid, s, a)
    \/ \E uid \in Identities, s \in SubjectIds, a \in BOOLEAN : UpdateSubject(uid, s, a)
    \/ \E uid \in Identities, s \in SubjectIds : DeleteSubject(uid, s)
    \/ \E uid \in Identities, e \in ExamIds, a \in BOOLEAN : UpdateExam(uid, e, a)
    \/ \E uid \in Identities, q \in QuestionIds, m \in MarkChoices,
          c \in AnswerChoices : UpdateQuestion(uid, q, m, c)
    \/ \E uid \in Identities, q \in QuestionIds : DeleteQuestion(uid, q)
    \/ \E uid \in Identities : SelectAttempts(uid)
    \/ \E uid \in Identities : SelectAnswers(uid)

SpecRoles == InitAnswered /\ [][NextRoles]_vars

\* two sessions on the page of the same attempt, whose answers are all saved
NextAnswers ==
    \/ \E c \in Sessions, e \in ExamIds : openExamPage(c, e) /\ BeginStart(MaxOpens)
    \/ \E c \in Sessions : leaveExamPage(c) /\ UNCHANGED used
    \/ \E c \in Sessions, o \in Outcomes : fetchExamDataExam(c, o) /\ UNCHANGED used
    \/ \E c \in Sessions, o \in Outcomes : fetchExamDataLookup(c, o) /\ UNCHANGED used
    \/ \E c \in Sessions, o \in Outcomes : fetchExamDataAnswers(c, o) /\ UNCHANGED used
    \/ \E c \in Sessions, o \in Outcomes : fetchExamDataQuestions(c, o) /\ UNCHANGED used
    \/ \E c \in Sessions, q \in QuestionIds, x \in AnswerChoices :
           handleAnswerSelect(c, q, x, "ok") /\ UNCHANGED used

SpecAnswers == InitAnswered /\ [][NextAnswers]_vars

\* one session taking the exam once, whose answers are all saved, also while
\* its Submit is under way
NextRace ==
    \/ \E e \in ExamIds : openExamPage("t1", e) /\ NoAttemptYet /\ UNCHANGED used
    \/ leaveExamPage("t1") /\ UNCHANGED used
    \/ \E o \in Outcomes : fetchExamDataExam("t1", o) /\ UNCHANGED used
    \/ \E o \in Outcomes : fetchExamDataLookup("t1", o) /\ UNCHANGED used
    \/ \E o \in Outcomes : fetchExamDataInsert("t1", o) /\ UNCHANGED used
    \/ \E o \in Outcomes : fetchExamDataQuestions("t1", o) /\ UNCHANGED used
    \/ \E q \in QuestionIds, x \in AnswerChoices :
           handleAnswerSelect("t1", q, x, "ok") /\ UNCHANGED used
    \/ handleSubmitExamClick("t1") /\ UNCHANGED used
    \/ \E o \in Outcomes : handleSubmitExamRead("t1", o) /\ UNCHANGED used
    \/ \E o \in Outcomes : handleSubmitExamUpdate("t1", o) /\ UNCHANGED used
    \/ \E u \in corrections, o \in Outcomes : updateIsCorrect(u, o)

SpecRace == InitScore /\ [][NextRace]_vars

\* the admin signed in on session t1 and the student on session t2
InitVisitor ==
    /\ InitProfiles
    /\ InitSubjects
    /\ questions \in SeededQuestions
    /\ questions["q2"] = NoRow
    /\ \E d \in DurationChoices :
          exams = [e \in ExamIds |-> [subject_id |-> "s1", is_active |-> TRUE,
                                      duration_minutes |-> d,
                                      total_marks |-> MarksOfQuestions(e)]]
    /\ qm = [examId |-> NULL, questions |-> {}, fetching |-> {},
             totalWrites |-> {}, lastOp |-> "none"]
    /\ attempts = [a \in AttemptIds |-> NoRow]
    /\ answers = [k \in AnswerKeys |-> NoRow]
    /\ corrections = {}
    /\ now = 0
    /\ client = [c \in Sessions |->
                   [InitClient EXCEPT !.user = IF c = "t1" THEN AdminUser ELSE StudentUser]]
    /\ used = 0

\* the admin and the student open the exam page by its URL while the clock runs
NextVisitor ==
    \/ \E c \in Sessions : NextExamPage(c, MaxOpens)
    \/ \E c \in Sessions : handleSubmitExamClick(c) /\ UNCHANGED used
    \/ \E c \in Sessions, o \in Outcomes : handleSubmitExamRead(c, o) /\ UNCHANGED used
    \/ \E c \in Sessions, o \in Outcomes : handleSubmitExamUpdate(c, o) /\ UNCHANGED used
    \/ Tick(TimerHorizon) /\ \E c \in Sessions : TimerRuns(client[c])

SpecVisitor == InitVisitor /\ [][NextVisitor]_vars


\* the exams listed in the admin panel
PanelExamIds == {"e1", "e2"}

\* two exams created by the admin: e1 with question q1, e2 with question q2,
\* each with its total_marks synchronised by the QuestionManager
InitPanel ==
    /\ InitProfiles
    /\ InitSubjects
    /\ questions = [q \in QuestionIds |->
                      IF q = "q1" THEN [exam_id |-> "e1", marks |-> 10, correct_answer |-> "B"]
                      ELSE [exam_id |-> "e2", marks |-> 1, correct_answer |-> "A"]]
    /\ exams = [e \in PanelExamIds |-> [subject_id |-> "s1", is_active |-> TRUE,
                                         duration_minutes |-> 1,
                                         total_marks |-> MarksOfQuestions(e)]]
    /\ qm = [examId |-> NULL, questions |-> {}, fetching |-> {},
             totalWrites |-> {}, lastOp |-> "none"]
    /\ InitExamSide

\* the admin switches between the two exams in the QuestionManager and edits
\* the questions shown
NextPanel ==
    \/ \E e \in PanelExamIds : selectExamForQuestions(e)
    \/ \E e \in PanelExamIds, o \in Outcomes : fetchQuestions(e, o)
    \/ \E w \in qm.totalWrites, o \in Outcomes : updateExamTotalMarks(w, o)
    \/ \E q \in QuestionIds, m \in MarkChoices, c \in AnswerChoices, o \in Outcomes :
           handleSubmitUpdate(q, m, c, o)

SpecPanel == InitPanel /\ [][NextPanel]_vars


\* one session that starts the exam, may leave the page while its Submit is
\* running and open it again, while the clock runs
NextRemount ==
    \/ \E e \in ExamIds : openExamPage("t1", e) /\ NoAttemptYet /\ UNCHANGED used
    \/ \E e \in ExamIds : reopenExamPage("t1", e) /\ BeginStart(MaxOpens)
    \/ leaveExamPage("t1") /\ UNCHANGED used
    \/ \E o \in Outcomes : fetchExamDataExam("t1", o) /\ UNCHANGED used
    \/ \E o \in Outcomes : fetchExamDataLookup("t1", o) /\ UNCHANGED used
    \/ \E o \in Outcomes : fetchExamDataAnswers("t1", o) /\ UNCHANGED used
    \/ \E o \in Outcomes : fetchExamDataInsert("t1", o) /\ UNCHANGED used
    \/ \E o \in Outcomes : fetchExamDataQuestions("t1", o) /\ UNCHANGED used
    \/ handleSubmitExamClick("t1") /\ UNCHANGED used
    \/ \E o \in Outcomes : handleSubmitExamRead("t1", o) /\ UNCHANGED used
    \/ \E o \in Outcomes : handleSubmitExamUpdate("t1", o) /\ UNCHANGED used
    \/ \E o \in Outcomes : handleSubmitExamReadUnmounted("t1", o) /\ UNCHANGED used
    \/ \E o \in Outcomes : handleSubmitExamUpdateUnmounted("t1", o) /\ UNCHANGED used
    \/ CountdownSecond

SpecRemount == InitOneQuestion /\ [][NextRemount]_vars


(***************************************************************************)
(* Claims                                                                  *)
(***************************************************************************)
Completed(a) == attempts[a] # NoRow /\ attempts[a].status = "completed"

\* C1: when the Start operations of a (student, exam) pair never overlap,
\* the pair has at most one in_progress attempt in every reachable state.
C1_AtMostOneInProgress ==
    \A e \in ExamIds : Cardinality(InProgressOf(StudentUser, e)) <= 1

RoleOf(p, u) == IF p[u] = NoRow THEN NULL ELSE p[u].role

\* C2: a role changes only in a write sent by an identity whose role is
\* admin at that time; in particular a student never turns its own role
\* into admin.
C2_OnlyAdminChangesRole ==
    [][\A u \in Identities :
         (profiles[u] # NoRow /\ RoleOf(profiles', u) # RoleOf(profiles, u))
             => lastOp'.callerRole = "admin"]_vars

QMSettled ==
    /\ qm.examId # NULL
    /\ qm.lastOp \in {"create", "update", "delete"}
    /\ qm.fetching = {}
    /\ qm.totalWrites = {}

\* C3: once the refetch and the total_marks write that follow a question
\* create, update or delete through QuestionManager have completed, the
\* exam's total_marks is the sum of the marks of its questions (0 after its
\* last question was deleted).
C3_TotalMarksIsSumOfQuestions ==
    QMSettled => exams[qm.examId].total_marks = MarksOfQuestions(qm.examId)

SelectedAnswers(rows, a) ==
    [q \in QuestionIds |-> IF rows[<<a, q>>] = NoRow THEN NULL
                           ELSE rows[<<a, q>>].selected_answer]

\* C4: no step changes the selected answers stored for an attempt that is
\* completed: handleAnswerSelect writes only while the attempt is in_progress.
C4_AnswerOnlyWhileInProgress ==
    [][\A a \in AttemptIds :
         Completed(a) => SelectedAnswers(answers', a) = SelectedAnswers(answers, a)]_vars

\* C5: Submit is terminal: no step changes the status, score, percentage or
\* completed_at of an attempt that is completed.
C5_SubmitIsTerminal ==
    [][\A a \in AttemptIds :
         Completed(a) => /\ attempts'[a] # NoRow
                         /\ attempts'[a].status = attempts[a].status
                         /\ attempts'[a].score = attempts[a].score
                         /\ attempts'[a].percentage = attempts[a].percentage
                         /\ attempts'[a].completed_at = attempts[a].completed_at]_vars

\* the questions answered correctly in the stored answers of an attempt
CorrectlyAnswered(a) ==
    {q \in QuestionIds : /\ answers[<<a, q>>] # NoRow
                         /\ questions[q] # NoRow
                         /\ answers[<<a, q>>].selected_answer = questions[q].correct_answer}

OneTenMarkQuestion ==
    /\ questions["q1"] = [exam_id |-> "e1", marks |-> 10, correct_answer |-> "B"]
    /\ questions["q2"] = NoRow

\* C6: the score Submit computes when it reads the answers is the sum of the
\* marks of the questions answered correctly, and that score is what it
\* persists, with the percentage of the total it loaded; with one 10-mark
\* question of correct answer B, B gives 10 and 100 percent, A gives 0 and 0.
C6_ScoreIsSumOfCorrectMarks ==
    [][\A c \in Sessions :
         LET a == client[c].submit.attempt
         IN /\ (client[c].submit.pc = "read" /\ client'[c].submit.pc = "update")
                 => /\ client'[c].submit.score =
                          SumOver(CorrectlyAnswered(a), [q \in QuestionIds |->
                              IF questions[q] = NoRow THEN 0 ELSE questions[q].marks])
                    /\ (OneTenMarkQuestion /\ SelectedAnswers(answers, a)["q1"] = "B")
                          => client'[c].submit.score = 10
                    /\ (OneTenMarkQuestion /\ SelectedAnswers(answers, a)["q1"] = "A")
                          => client'[c].submit.score = 0
            /\ (client[c].submit.pc = "update" /\ client'[c].submit.pc = "idle")
                 => /\ attempts'[a] # NoRow
                    /\ attempts'[a].status = "completed"
                    /\ attempts'[a].score = client[c].submit.score
                    /\ (client[c].submit.total_marks = 10 /\ client[c].submit.score = 10)
                          => attempts'[a].percentage = [num |-> 100, den |-> 1]
                    /\ client[c].submit.score = 0
                          => attempts'[a].percentage = [num |-> 0, den |-> 1]]_vars

\* a completed attempt that got the marks of its right answer and nothing
\* for its wrong one
C6_Witness ==
    \E a \in AttemptIds :
        /\ Completed(a)
        /\ attempts[a].score = 10
        /\ SelectedAnswers(answers, a) = [q \in QuestionIds |-> "B"]
        /\ questions["q2"] # NoRow /\ questions["q2"].correct_answer = "A"

\* C7: the percentage a Submit persists is within [0, 100] when the total
\* marks it divides by is positive, and 0 when that total is 0, whatever the
\* admin did to the questions since the exam was loaded.
C7_PercentageWithinBounds ==
    [][\A c \in Sessions :
         (client[c].submit.pc = "update" /\ client'[c].submit.pc = "idle")
            => LET a == client[c].submit.attempt
                   total == client[c].submit.total_marks
                   percentage == attempts'[a].percentage
               IN /\ total > 0 => /\ 0 <= percentage.num
                                  /\ percentage.num <= 100 * percentage.den
                  /\ total = 0 => percentage.num = 0]_vars

\* C8: a Start that finds one or more in_progress attempts of the pair goes
\* on to no insert: the exam page resumes one of them, and startExam opens
\* the exam page without creating a row.
C8_StartResumesExisting ==
    [][\A c \in Sessions :
         /\ (/\ client[c].pc = "fd_lookup"
             /\ client'[c].pc # "fd_lookup"
             /\ InProgressOf(StudentUser, client[c].examId) # {})
               => \/ client'[c].pc = "dashboard"
                  \/ /\ client'[c].pc = "fd_answers"
                     /\ client'[c].page.currentAttempt
                            \in InProgressOf(StudentUser, client[c].examId)
         /\ (/\ client[c].pc = "dashboard"
             /\ client'[c].pc # "dashboard"
             /\ InProgressOf(StudentUser, client'[c].examId) # {})
               => client'[c].pc = "fd_exam"]_vars

\* C9: no step creates an exam_attempts row for an exam that is not active.
C9_NoAttemptForInactiveExam ==
    [][\A a \in AttemptIds :
         (attempts[a] = NoRow /\ attempts'[a] # NoRow)
            => exams[attempts'[a].exam_id].is_active]_vars

\* the countdown of the loaded attempt a has reached zero on a mounted page
CountdownAtZero(a) ==
    \E c \in Sessions : /\ client[c].pc \in {"fd_answers", "fd_questions", "ready"}
                        /\ client[c].page.currentAttempt = a
                        /\ client[c].page.timeRemaining = 0

\* handleSubmitExam has ended in its catch and was not called again
SubmitHasFailed == \E c \in Sessions : client[c].submit.pc = "failed"

\* C10 as stated: once the countdown of a loaded attempt is at zero, the
\* attempt eventually is completed.
C10_TimeoutCompletes ==
    \A a \in AttemptIds : CountdownAtZero(a) ~> Completed(a)

\* C10 as amended: once the countdown of a loaded attempt is at zero, the
\* attempt eventually is completed, or a request of the Submit has failed
\* (nothing retries it).
C10_TimeoutCompletesUnlessFailed ==
    \A a \in AttemptIds : CountdownAtZero(a) ~> (Completed(a) \/ SubmitHasFailed)

\* an attempt completed a full minute after it started, by the countdown
C10_Witness ==
    \E a \in AttemptIds :
        /\ Completed(a)
        /\ attempts[a].completed_at = attempts[a].started_at + SecondsPerMinute
        /\ ~SubmitHasFailed

\* session c resumes an in_progress attempt in this step
Resumes(c) == client[c].pc = "fd_lookup" /\ client'[c].pc = "fd_answers"

\* C11: on resuming an in_progress attempt the remaining time is, in seconds,
\* the exam's duration less the whole minutes elapsed since started_at, and
\* never below 0; when the elapsed time has reached the duration the
\* remaining time is 0 and Submit is called in the same step, before any
\* tick of the countdown.
C11_ResumeClampsAndSubmits ==
    [][\A c \in Sessions :
         Resumes(c) =>
            LET a == client'[c].page.currentAttempt
                elapsedSeconds == now - attempts[a].started_at
                elapsedMinutes == elapsedSeconds \div 60
                duration == exams[client[c].examId].duration_minutes
            IN /\ a \in InProgressOf(StudentUser, client[c].examId)
               /\ elapsedMinutes < duration
                    => /\ client'[c].page.timeRemaining = (duration - elapsedMinutes) * 60
                       /\ client'[c].submit.pc = "idle" \/ client'[c].submit.pc = "failed"
               /\ elapsedSeconds >= duration * 60
                    => /\ client'[c].page.timeRemaining = 0
                       /\ client'[c].submit.pc = "read"
                       /\ client'[c].submit.attempt = a
                       /\ client'[c].page.isSubmitting]_vars

\* a two-minute exam reopened after two minutes or more: the countdown is at
\* zero and the Submit of the resumed attempt has begun
C11_Witness ==
    \E c \in Sessions :
        /\ client[c].pc = "fd_answers"
        /\ client[c].page.exam.duration_minutes = 2
        /\ now - attempts[client[c].page.currentAttempt].started_at >= 120
        /\ client[c].page.timeRemaining = 0
        /\ client[c].submit.pc = "read"

\* attempt a is inserted in this step
Created(a) == attempts[a] = NoRow /\ attempts'[a] # NoRow

\* no step changes the total_marks of an attempt that exists
TotalMarksKept ==
    \A a \in AttemptIds :
        (attempts[a] # NoRow /\ attempts'[a] # NoRow)
            => attempts'[a].total_marks = attempts[a].total_marks

\* C12 as stated: an attempt is created in_progress with the total_marks the
\* exam has at the time of the insert, and no later step changes the
\* attempt's total_marks.
C12_SnapshotOfExamAtInsert ==
    [][/\ \A a \in AttemptIds :
            Created(a) => /\ attempts'[a].status = "in_progress"
                          /\ attempts'[a].total_marks = exams[attempts'[a].exam_id].total_marks
       /\ TotalMarksKept]_vars

\* C12 as amended: an attempt is created in_progress with the total_marks the
\* Start operation read from the exam in its request before the insert, and
\* no later step (answer, submit, question create, update or delete, the
\* total_marks sync) changes the attempt's total_marks.
C12_SnapshotOfExamAsRead ==
    [][/\ \A a \in AttemptIds :
            Created(a) =>
               /\ attempts'[a].status = "in_progress"
               /\ \E c \in Sessions :
                     \/ /\ client[c].pc = "se_insert" /\ client'[c].pc = "fd_exam"
                        /\ attempts'[a].total_marks = client[c].total_marks
                     \/ /\ client[c].pc = "fd_insert" /\ client'[c].pc = "fd_questions"
                        /\ attempts'[a].total_marks = client[c].page.exam.total_marks
       /\ TotalMarksKept]_vars

\* an attempt created with 10 total marks and completed keeps them after the
\* admin lowered the exam's total to 1
C12_Witness ==
    \E a \in AttemptIds :
        /\ Completed(a)
        /\ attempts[a].total_marks = 10
        /\ exams[attempts[a].exam_id].total_marks = 1

\* the rows of subjects, exams and questions
ManagedRows == <<subjects, exams, questions>>

\* the step is a write to subjects, exams or questions
ManagedWrite == lastOp'.table \in {"subjects", "exams", "questions"}

NoOrphans ==
    /\ \A e \in ExamIds : exams[e] # NoRow => subjects[exams[e].subject_id] # NoRow
    /\ \A q \in QuestionIds : questions[q] # NoRow => exams[questions[q].exam_id] # NoRow

\* C14: the step in which an admin deletes a subject removes all of its exams
\* and all of their questions, none of which remains in any later state; a
\* Start for an exam that is gone goes back to the dashboard, and no step
\* creates an exam_attempts row for an exam that is gone.
C14_DeleteSubjectCascades ==
    /\ []NoOrphans
    /\ [][/\ \A s \in SubjectIds :
               (subjects[s] # NoRow /\ subjects'[s] = NoRow)
                  => \A e \in ExamsOfSubject(s) :
                        /\ exams'[e] = NoRow
                        /\ \A q \in QuestionsOf(e) : questions'[q] = NoRow
          /\ \A a \in AttemptIds :
               Created(a) => exams[attempts'[a].exam_id] # NoRow
          /\ \A c \in Sessions :
               (/\ client[c].pc \in {"se_exam", "se_insert", "fd_exam", "fd_insert"}
                /\ client'[c] # client[c]
                /\ exams[client[c].examId] = NoRow)
                  => client'[c].pc = "dashboard"]_vars

\* the subject, its exam and the exam's question are gone, and a session that
\* took a Start for the exam up to its insert is back on the dashboard
\* without an attempt
C14_Witness ==
    /\ subjects["s1"] = NoRow
    /\ exams["e1"] = NoRow
    /\ questions["q1"] = NoRow
    /\ NoAttemptYet
    /\ \E c \in Sessions : /\ client[c].pc = "dashboard"
                           /\ client[c].examId = "e1"
                           /\ client[c].total_marks = 10
                           /\ lastOp.table = "subjects"

\* C15: the role a request is checked with is admin exactly when the caller's
\* profile row has role admin; a caller without a profile row has an absent
\* role, and its request changes no row of subjects, exams or questions and
\* no profile of another identity, and its select from exam_attempts or
\* student_answers shows it no row.
C15_RoleResolvesFromProfile ==
    [][LET req == lastOp'
           caller == profiles[req.caller]
       IN /\ req.callerRole = "admin" <=> (caller # NoRow /\ caller.role = "admin")
          /\ caller = NoRow =>
               /\ req.callerRole = NULL
               /\ ManagedRows' = ManagedRows
               /\ \A id \in Identities \ {req.caller} : profiles'[id] = profiles[id]
               /\ req.op = "select" => req.rows = {}]_vars

\* an identity without a profile row has asked for the student's answers,
\* which exist, and was shown none
C15_Witness ==
    /\ lastOp # NoRow
    /\ lastOp.table = "student_answers"
    /\ profiles[lastOp.caller] = NoRow
    /\ lastOp.rows = {}
    /\ answers[<<1, "q1">>] # NoRow

\* session c selects for question q an option x that its page did not show
Selects(c, q, x) ==
    /\ client[c].pc = "ready"
    /\ client[c].page.answers[q] # x
    /\ client'[c].page.answers[q] = x

\* C16: student_answers holding one row per (attempt_id, question_id), an
\* Answer that is saved leaves the row of its pair with the option selected
\* and every other row as it was, and a row changes only to the option a
\* session has selected for it, so that the row holds the option of the
\* latest Answer of the pair; selecting the option already stored changes no
\* row.
C16_LatestAnswerStored ==
    [][/\ \A c \in Sessions, q \in QuestionIds, x \in AnswerChoices :
            Selects(c, q, x) =>
               LET k == <<client[c].page.currentAttempt, q>>
               IN /\ answers'[k] # NoRow
                  /\ answers'[k].selected_answer = x
                  /\ \A j \in AnswerKeys \ {k} : answers'[j] = answers[j]
                  /\ (answers[k] # NoRow /\ answers[k].selected_answer = x)
                        => answers' = answers
       /\ \A k \in AnswerKeys :
            answers'[k] # answers[k]
               => \E c \in Sessions :
                     /\ client[c].pc = "ready"
                     /\ client[c].page.currentAttempt = k[1]
                     /\ client'[c].page.answers[k[2]] = answers'[k].selected_answer]_vars

\* the answer B stored at the start was overwritten with A, and a second
\* question was answered beside it
C16_Witness ==
    /\ answers[<<1, "q1">>] # NoRow
    /\ answers[<<1, "q1">>].selected_answer = "A"
    /\ answers[<<1, "q2">>] # NoRow

IsCorrectOf(rows, k) == IF rows[k] = NoRow THEN NULL ELSE rows[k].is_correct

\* C17: a step in which a session selects an option changes the is_correct
\* of no row; is_correct changes only when one of the updates sent by a
\* Submit is executed, and such an update is sent only by a Submit that has
\* been started for the attempt and reads its answers, so that before any
\* Submit all is_correct of an attempt are absent.
C17_AnswerLeavesIsCorrect ==
    [][/\ \A c \in Sessions :
            client'[c].page.answers # client[c].page.answers
               => \A k \in AnswerKeys : IsCorrectOf(answers', k) = IsCorrectOf(answers, k)
       /\ \A k \in AnswerKeys :
            IsCorrectOf(answers', k) # IsCorrectOf(answers, k)
               => \E u \in corrections \ corrections' :
                     /\ u.attempt_id = k[1]
                     /\ u.question_id = k[2]
                     /\ u.is_correct = IsCorrectOf(answers', k)
       /\ \A u \in corrections' \ corrections :
            \E c \in Sessions : /\ client[c].submit.pc = "read"
                                /\ client[c].submit.attempt = u.attempt_id]_vars

\* the answer marked correct by a Submit was changed to a wrong option
\* afterwards and is still marked correct
C17_Witness ==
    \E k \in AnswerKeys :
        /\ answers[k] # NoRow
        /\ answers[k].is_correct = "true"
        /\ questions[k[2]] # NoRow
        /\ answers[k].selected_answer # questions[k[2]].correct_answer

\* the in_progress attempts of the student for exam e after the step
InProgressAfter(e) ==
    {a \in AttemptIds : /\ attempts'[a] # NoRow
                        /\ attempts'[a].exam_id = e
                        /\ attempts'[a].student_id = StudentUser
                        /\ attempts'[a].status = "in_progress"}

\* C18: the insert of a Start does not look again: once the lookup of a Start
\* has found no row, its insert adds an in_progress attempt of the pair
\* whatever attempts the pair has by then, so two Starts whose lookups both
\* precede both inserts leave two in_progress attempts.
C18_InsertDoesNotLookAgain ==
    [][\A c \in Sessions :
         (\/ client[c].pc = "se_insert" /\ client'[c].pc = "fd_exam"
          \/ client[c].pc = "fd_insert" /\ client'[c].pc = "fd_questions")
            => LET e == client[c].examId
               IN /\ InProgressOf(StudentUser, e) \subseteq InProgressAfter(e)
                  /\ Cardinality(InProgressAfter(e)) =
                        Cardinality(InProgressOf(StudentUser, e)) + 1]_vars

\* each of the two sessions has inserted its own attempt of the same exam
\* and both are in progress
C18_Witness ==
    /\ client["t1"].pc = "fd_questions"
    /\ client["t2"].pc = "fd_questions"
    /\ client["t1"].page.currentAttempt # client["t2"].page.currentAttempt
    /\ client["t1"].examId = client["t2"].examId
    /\ InProgressOf(StudentUser, client["t1"].examId)
          = {client["t1"].page.currentAttempt, client["t2"].page.currentAttempt}

\* the marks of the questions of attempt a answered correctly in the stored rows
MarksEarned(a) ==
    SumOver(CorrectlyAnswered(a),
            [q \in QuestionIds |-> IF questions[q] = NoRow THEN 0 ELSE questions[q].marks])

\* C19: an Answer sent while a Submit of the same attempt is under way is
\* stored, before as well as after the Submit has read the answers, and
\* leaves the Submit as it is; the Submit's score is the marks earned by the
\* rows stored when it reads them, and that score is what its update
\* persists, so the marks of the racing answer are included when its upsert
\* precedes the read and left out when it follows.
C19_AnswerRacesSubmit ==
    [][\A c \in Sessions :
         LET a == client[c].submit.attempt
         IN /\ \A q \in QuestionIds, x \in AnswerChoices :
                 (Selects(c, q, x) /\ client[c].submit.pc \in {"read", "update"})
                    => /\ client[c].page.currentAttempt = a
                       /\ answers'[<<a, q>>] # NoRow
                       /\ answers'[<<a, q>>].selected_answer = x
                       /\ client'[c].submit = client[c].submit
            /\ (client[c].submit.pc = "read" /\ client'[c].submit.pc = "update")
                 => /\ client'[c].submit.score = MarksEarned(a)
                    /\ answers' = answers
            /\ (client[c].submit.pc = "update" /\ client'[c].submit.pc = "idle")
                 => /\ attempts'[a].score = client[c].submit.score
                    /\ answers' = answers]_vars

\* a completed attempt whose stored answer is the right one and whose score
\* is 0: the answer was saved after the Submit had read the answers
C19_Witness ==
    \E a \in AttemptIds :
        /\ Completed(a)
        /\ attempts[a].score = 0
        /\ MarksEarned(a) = 10
        /\ questions["q2"] = NoRow

\* no page of the session is open and no Submit of it is under way
Away(cl) == cl.pc = "dashboard" /\ cl.submit.pc \in {"idle", "failed"}

\* C20: an in_progress attempt changes only in the step in which the update
\* of a session's Submit of that attempt is executed, which completes it;
\* while no session is running, no step changes an attempt, however far the
\* clock has gone past started_at plus the duration.
C20_OnlySubmitCompletes ==
    [][/\ \A a \in AttemptIds :
            (/\ attempts[a] # NoRow
             /\ attempts[a].status = "in_progress"
             /\ attempts'[a] # attempts[a])
               => /\ attempts'[a] # NoRow
                  /\ attempts'[a].status = "completed"
                  /\ \E c \in Sessions : /\ client[c].submit.pc = "update"
                                         /\ client[c].submit.attempt = a
                                         /\ client'[c].submit.pc = "idle"
       /\ (\A c \in Sessions : Away(client[c])) => attempts' = attempts]_vars

\* no session is running and the attempt is in progress a minute and more
\* after its time was up
C20_Witness ==
    /\ \A c \in Sessions : Away(client[c])
    /\ \E a \in AttemptIds :
          /\ attempts[a] # NoRow
          /\ attempts[a].status = "in_progress"
          /\ now - attempts[a].started_at
                >= (exams[attempts[a].exam_id].duration_minutes + 1) * 60

\* C21: an is_correct update sent by a Submit that is answered, with success
\* or with an error, changes neither a session nor an attempt, so it does not
\* abort the Submit; the Submit's update completes the attempt with the score
\* it computed from the answers it read and the percentage of that score,
\* whatever has become of its is_correct updates.
C21_LostCorrectionKeepsSubmit ==
    [][/\ corrections' # corrections /\ corrections' \subseteq corrections
            => client' = client /\ attempts' = attempts
       /\ \A c \in Sessions :
            (client[c].submit.pc = "update" /\ client'[c].submit.pc = "idle")
               => LET a == client[c].submit.attempt
                  IN /\ attempts'[a] # NoRow
                     /\ attempts'[a].status = "completed"
                     /\ attempts'[a].score = client[c].submit.score
                     /\ attempts'[a].percentage =
                           Percentage(client[c].submit.score, client[c].submit.total_marks)]_vars

\* the attempt is completed with the marks of its right answer, whose
\* is_correct update was lost: the row was never marked
C21_Witness ==
    \E a \in AttemptIds :
        /\ Completed(a)
        /\ attempts[a].score = 10
        /\ attempts[a].percentage = Percentage(10, 10)
        /\ answers[<<a, "q1">>] # NoRow
        /\ answers[<<a, "q1">>].selected_answer = "B"
        /\ answers[<<a, "q1">>].is_correct = NULL
        /\ corrections = {}

\* the pair of the student and exam e has exactly one attempt in progress, so
\* the in-progress lookup is answered with that row or with a backend error
\* other than "no row found"
OneInProgress(e) == e \in ExamIds /\ Cardinality(InProgressOf(StudentUser, e)) = 1

\* C22: a Start whose in-progress lookup fails with a backend error other
\* than "no row found" reports failure and goes on to no insert, in
\* Dashboard.startExam as in the exam page's fetchExamData: while the pair
\* has exactly one attempt in progress, no lookup of a Start is followed by
\* the steps that lead to the insert.
C22_FailedLookupFailsStart ==
    [][\A c \in Sessions :
         /\ (client[c].pc = "dashboard" /\ OneInProgress(client'[c].examId))
               => client'[c].pc # "se_exam"
         /\ (client[c].pc = "fd_lookup" /\ OneInProgress(client[c].examId))
               => client'[c].pc # "fd_insert"]_vars

\* C23: a session of an identity whose role is not student creates no
\* exam_attempts row and starts no Submit when it opens the exam page of an
\* active exam, so that every attempt created by the exam page belongs to an
\* identity of role student.
C23_OnlyStudentsTakeExams ==
    [][/\ \A a \in AttemptIds :
            (attempts[a] = NoRow /\ attempts'[a] # NoRow)
               => get_current_user_role(attempts'[a].student_id) = "student"
       /\ \A c \in Sessions :
            (client[c].submit.pc # "read" /\ client'[c].submit.pc = "read")
               => get_current_user_role(client[c].user) = "student"]_vars

\* C24: the percentage persisted with a completed attempt is 100 * score /
\* total_marks of the attempt itself, the snapshot taken when it was created
\* (0 if that is 0), which is the percentage the dashboard derives from the
\* attempt; also when the exam's total_marks changed after the creation.
C24_PercentageOfSnapshot ==
    \A a \in AttemptIds :
        Completed(a) =>
            attempts[a].percentage = Percentage(attempts[a].score, attempts[a].total_marks)

\* C25: in every reachable state each stored answer whose is_correct is set
\* has is_correct = (selected_answer equals the correct_answer of its
\* question), also after a Submit whose attempt update failed and a changed
\* answer, and after an Answer that races a Submit.
C25_IsCorrectMatchesAnswer ==
    \A k \in AnswerKeys :
        (answers[k] # NoRow /\ answers[k].is_correct # NULL /\ questions[k[2]] # NoRow)
           => (answers[k].is_correct = "true"
                  <=> answers[k].selected_answer = questions[k[2]].correct_answer)

\* C26: every total_marks write that the QuestionManager sends for exam E
\* carries the sum of the marks of a question list fetched for E itself: a
\* write is sent only in the step in which a fetch of the questions of the
\* written exam is answered, so a fetch of the previously selected exam that
\* is answered after the admin has switched writes nothing to the newly
\* selected exam.
C26_TotalWrittenToFetchedExam ==
    [][\A w \in qm'.totalWrites \ qm.totalWrites :
         /\ w.exam \in qm.fetching \ qm'.fetching
         /\ w.total = MarksOfQuestions(w.exam)]_vars

\* the step in which the timer effect of session c calls handleSubmitExam and
\* a Submit begins: timeRemaining or currentAttempt has changed
AutoSubmit(c) ==
    /\ client[c].submit.pc # "read"
    /\ client'[c].submit.pc = "read"
    /\ \/ client'[c].page.timeRemaining # client[c].page.timeRemaining
       \/ client'[c].page.currentAttempt # client[c].page.currentAttempt

SubmitRunning(cl) == cl.submit.pc \in {"read", "update"} \/ cl.left.pc \in {"read", "update"}

\* C28: within one client session at most one Submit is in progress at a
\* time: while a Submit started by a click or by the timer has not finished,
\* no click and no countdown reaching zero starts a second Submit, so there
\* is no second scoring pass and no second attempt update.
C28_OneSubmitAtATime ==
    [][\A c \in Sessions :
         (client[c].submit.pc # "read" /\ client'[c].submit.pc = "read")
            => ~SubmitRunning(client[c])]_vars

\* C29: the remaining time granted when an attempt is resumed exceeds neither
\* the exam's duration nor the true remaining time, duration_minutes * 60
\* less the seconds elapsed since started_at (0 once that is negative), so
\* that the countdown seconds given over all resumes of one attempt do not
\* exceed duration_minutes * 60.
C29_ResumeGrantsNoExtraTime ==
    [][\A c \in Sessions :
         Resumes(c) =>
            LET a == client'[c].page.currentAttempt
                elapsedSeconds == now - attempts[a].started_at
                duration == client[c].page.exam.duration_minutes
            IN /\ client'[c].page.timeRemaining <= duration * 60
               /\ client'[c].page.timeRemaining <= Max(0, duration * 60 - elapsedSeconds)]_vars

\* C30: when a request of a Submit (reading the answers or updating the
\* attempt) is answered with an error, no attempt changes, so status, score,
\* percentage and completed_at of the attempt stay as they were, the failure
\* is reported and isSubmitting is cleared; the next Submit of the session
\* is then a new Submit of the attempt that is loaded, which can complete it.
C30_FailedSubmitChangesNothing ==
    [][\A c \in Sessions :
         /\ (client[c].submit.pc \in {"read", "update"} /\ client'[c].submit.pc = "failed")
               => /\ attempts' = attempts
                  /\ client'[c].submit = FailedSubmit
                  /\ ~client'[c].page.isSubmitting
                  /\ client'[c].page.currentAttempt = client[c].page.currentAttempt
         /\ (client[c].submit.pc = "failed" /\ client'[c].submit.pc = "read")
               => /\ client'[c].submit.attempt = client[c].page.currentAttempt
                  /\ client'[c].page.isSubmitting]_vars

\* the Submit of the loaded attempt has failed after scoring: the attempt is
\* in progress without score, percentage or completed_at, and the Submit
\* button of the page is enabled again
C30_Witness ==
    \E a \in AttemptIds :
        /\ client["t1"].submit.pc = "failed"
        /\ client["t1"].page.currentAttempt = a
        /\ PageRendered("t1")
        /\ ~client["t1"].page.isSubmitting
        /\ attempts[a] # NoRow
        /\ attempts[a].status = "in_progress"
        /\ attempts[a].score = -1
        /\ attempts[a].percentage = NoRow
        /\ attempts[a].completed_at = -1
        /\ \E k \in AnswerKeys : answers[k] # NoRow /\ answers[k].is_correct # NULL

====
